---- MODULE Spec2Model ----
(***************************************************************************)
(* TCP_File_Client (src/main.go): a sequential client that dials a fixed   *)
(* server, opens a log file, validates a filename, sends "GET <name>\n"    *)
(* and copies the response into a local file until end-of-stream.          *)
(*                                                                         *)
(* Characters and bytes are code points (integers).  Time is discrete: one *)
(* Tick is ConnectionTimeout / TicksPerTimeout.  A deadline is kept as the *)
(* time remaining until it passes (deadline - now), so no absolute clock   *)
(* is needed.  Every system call is a step whose outcome the environment   *)
(* chooses; the program's reaction to the outcome is the code's.           *)
(***************************************************************************)
EXTENDS Integers, Sequences, FiniteSets, TLC

\* ------------------------------------------------------------ bounds
\* Clock ticks that make up ConnectionTimeout.
TicksPerTimeout == 2
\* Bytes of the read buffer (main passes DefaultBufferSize).
BufferBytes == 2
\* Longest response the server holds.
MaxData == 3
\* Longest filename given to validateFilename in ValidateSpec.
MaxNameLen == 2

\* ------------------------------------------------------------ constants
ConnectionTimeout == TicksPerTimeout
DefaultBufferSize == BufferBytes

\* "test.txt", the name main requests.
TestTxt == <<116, 101, 115, 116, 46, 116, 120, 116>>
\* "a/b": a name with a path separator, standing for a rejected request.
BadName == <<97, 47, 98>>
\* The requested name is the program's one input; main fixes it to a
\* literal, the validation failure branch is exercised with BadName.
MainFilenames == {TestTxt, BadName}

\* Characters the validator is tried on: a Z 0 . _ - and, outside the
\* class, / space newline.
Alphabet == {97, 90, 48, 46, 95, 45, 47, 32, 10}

\* The responses the server may hold: every length up to MaxData, the i-th
\* byte being i.  downloadFile never looks at a byte's value, so pairwise
\* distinct bytes (all different from the zeros a fresh buffer holds) stand
\* for any contents, and show any byte lost, repeated, moved or added.
ServerDatas == {[i \in 1..n |-> i] : n \in 0..MaxData}
\* What a pre-existing local file holds: bytes the server never sends.
OldContents == <<200, 200>>
\* The local file does not exist.
Absent == <<-1>>
\* No deadline set / timer not running.
NoTimer == 0 - 1
\* The exit code of a process that has not exited.
NotExited == 0 - 1

RECURSIVE SeqsUpTo(_, _)
SeqsUpTo(S, n) ==
    IF n = 0 THEN {<<>>}
    ELSE LET shorter == SeqsUpTo(S, n - 1)
         IN shorter \cup {Append(s, x) : s \in {t \in shorter : Len(t) = n - 1}, x \in S}

Filenames == SeqsUpTo(Alphabet, MaxNameLen)
PriorContents == {Absent, OldContents}

Min(a, b) == IF a < b THEN a ELSE b

\* ------------------------------------------------------------ FilenameRegex
\* ^[a-zA-Z0-9._-]+$ : the ranges and single characters of the class.
ClassRanges == {<<97, 122>>, <<65, 90>>, <<48, 57>>, <<46, 46>>, <<95, 95>>, <<45, 45>>}

InClass(c) == \E r \in ClassRanges : r[1] <= c /\ c <= r[2]

\* End of the longest run of class characters of s that starts after
\* position i (0-based offset): the positions a greedy + can stop at are
\* i+1 .. RunEnd(s, i).
RECURSIVE RunEnd(_, _)
RunEnd(s, i) ==
    IF i < Len(s) /\ InClass(s[i + 1]) THEN RunEnd(s, i + 1) ELSE i

\* Variant: the pattern without its closing $.
MatchAtNoEnd(s, from) ==
    /\ from = 0
    /\ \E to \in (from + 1)..RunEnd(s, from) : TRUE

\* The match of the pattern at start offset `from`: ^ asserts the offset
\* is the beginning of the text, + takes one or more class characters,
\* $ asserts the end of the text (Go's $ without the m flag matches only
\* at the very end, not before a trailing newline).
MatchAt(s, from) ==
    /\ from = 0
    /\ \E to \in (from + 1)..RunEnd(s, from) : to = Len(s)

\* regexp.MatchString: an unanchored search over every start offset.
MatchString(s) == \E from \in 0..Len(s) : MatchAt(s, from)

ValNil == [msg |-> "", filename |-> <<>>]

validateFilename(f) ==
    IF ~MatchString(f) THEN [msg |-> "invalid filename: ", filename |-> f] ELSE ValNil

\* ------------------------------------------------------------ errors
DlNil == [msg |-> "", wraps |-> ""]
Wrap(msg, cause) == [msg |-> msg, wraps |-> cause]

EOF == "EOF"
NoErr == ""
ErrTimeout == "i/o timeout"
ErrReset == "connection reset by peer"
ErrPipe == "broken pipe"
ErrPerm == "permission denied"
ErrClosedConn == "use of closed network connection"
ErrNoSpace == "no space left on device"

\* "GET %s\n"
Request(f) == <<71, 69, 84, 32>> \o f \o <<10>>

\* ------------------------------------------------------------ state
VARIABLES
    pc,          \* position of the program
    filename,    \* the requested name (main.go:104)
    conn,        \* the connection handle: "none", "open", "closed" (closed by conn.Close)
    logFile,     \* the log file handle, likewise
    outFile,     \* the output file handle of downloadFile, likewise
    closes,      \* how many times the program closed each handle
    serverMode,  \* "serving": sends serverData then closes; "silent": never sends, never closes
    serverData,  \* the bytes the server holds for the request
    sent,        \* how many of them have arrived in the socket's receive buffer
    rcvd,        \* how many of them conn.Read has returned
    peerClosed,  \* the server closed its side (FIN arrived)
    connReset,   \* the connection was reset by the peer
    buffer,      \* downloadFile's buffer, bufferSize bytes
    bytesRead,   \* the count the last conn.Read returned
    disk,        \* contents of the local file named filename, or Absent
    prior,       \* its contents before the run
    deadline,    \* time left until the read deadline passes, or NoTimer
    gap,         \* time since the loop was entered or the previous read returned
    stalled,     \* the gap reached ConnectionTimeout with nothing arrived
    elapsed,     \* time since the loop was entered, up to ConnectionTimeout + 1
    valErr,      \* validateFilename's result
    dlErr,       \* downloadFile's result
    lastCall,    \* the last read/write/create/deadline call downloadFile made, with its error
    fileCreated, \* os.Create succeeded
    wire,        \* the bytes the client wrote to the connection
    stdout,      \* lines printed
    logLines,    \* lines appended to the log file in this run
    exitCode     \* the process's exit code, or NotExited while it runs

vars == <<pc, filename, conn, logFile, outFile, closes, serverMode, serverData,
          sent, rcvd, peerClosed, connReset, buffer, bytesRead, disk, prior,
          deadline, gap, stalled, elapsed, valErr, dlErr, lastCall, fileCreated, wire,
          stdout, logLines, exitCode>>

progVars == <<pc, conn, logFile, outFile, closes, buffer, bytesRead, disk,
              valErr, dlErr, lastCall, fileCreated, wire, stdout, logLines, exitCode>>
netVars == <<sent, rcvd, peerClosed, connReset>>
timeVars == <<deadline, gap, stalled, elapsed>>
inputVars == <<filename, serverMode, serverData, prior>>

\* The receive loop of downloadFile is running.  The program looks at the
\* socket and at the clock only here: what arrives before the loop is
\* entered is seen as if it arrived at its entry, what arrives after
\* downloadFile returned is never read, and no deadline is pending outside
\* the loop.  The environment is therefore modelled while the loop runs.
InLoop == pc \in {"dl_deadline", "dl_read", "dl_write"}

InitCommon ==
    /\ serverMode \in {"serving", "silent"}
    /\ serverData \in (IF serverMode = "silent" THEN {<<>>} ELSE ServerDatas)
    /\ prior \in PriorContents
    /\ disk = prior
    /\ outFile = "none"
    /\ closes = [conn |-> 0, log |-> 0, file |-> 0]
    /\ sent = 0 /\ rcvd = 0 /\ peerClosed = FALSE /\ connReset = FALSE
    /\ buffer = [i \in 1..DefaultBufferSize |-> 0]
    /\ bytesRead = 0
    /\ deadline = NoTimer /\ gap = NoTimer /\ stalled = FALSE /\ elapsed = NoTimer
    /\ valErr = ValNil /\ dlErr = DlNil
    /\ lastCall = [op |-> "", err |-> NoErr]
    /\ fileCreated = FALSE
    /\ wire = <<>> /\ stdout = <<>> /\ logLines = <<>>
    /\ exitCode = NotExited

Init ==
    /\ InitCommon
    /\ pc = "dial"
    /\ filename \in MainFilenames
    /\ conn = "none" /\ logFile = "none"

\* os.Exit(code): the process ends at once; deferred calls do not run.
Exit(code) ==
    /\ pc' = "exited"
    /\ exitCode' = code

\* ------------------------------------------------------------ main
\* Variant: the error is printed but the process goes on.
OnDialErrorNoExit ==
    /\ stdout' = Append(stdout, "error connecting to server:")
    /\ pc' = "openLog"
    /\ UNCHANGED <<conn, exitCode>>

\* main.go:88-91 with the dial failed: print and exit 1.
OnDialError ==
    /\ stdout' = Append(stdout, "error connecting to server:")
    /\ Exit(1)
    /\ UNCHANGED conn

\* net.DialTimeout("tcp", ServerAddress, ConnectionTimeout) and the check of
\* its error; on success conn.Close is deferred.
Dial ==
    /\ pc = "dial"
    /\ \E ok \in BOOLEAN :
          IF ok
          THEN /\ conn' = "open"
               /\ pc' = "openLog"
               /\ UNCHANGED <<stdout, exitCode>>
          ELSE OnDialError
    /\ UNCHANGED <<logFile, outFile, closes, buffer, bytesRead, disk, valErr,
                   dlErr, lastCall, fileCreated, wire, logLines>>
    /\ UNCHANGED <<netVars, timeVars, inputVars>>

\* os.OpenFile(logFilename, O_CREATE|O_APPEND|O_WRONLY, 0644) and the check
\* of its error; on success logFile.Close is deferred.
OpenLog ==
    /\ pc = "openLog"
    /\ \E ok \in BOOLEAN :
          IF ok
          THEN /\ logFile' = "open"
               /\ pc' = "validate"
               /\ UNCHANGED <<stdout, exitCode>>
          ELSE /\ stdout' = Append(stdout, "error creating log file:")
               /\ Exit(1)
               /\ UNCHANGED logFile
    /\ UNCHANGED <<conn, outFile, closes, buffer, bytesRead, disk, valErr,
                   dlErr, lastCall, fileCreated, wire, logLines>>
    /\ UNCHANGED <<netVars, timeVars, inputVars>>

\* The call validateFilename(filename) of main.go:105.
CallValidate ==
    /\ pc = "validate"
    /\ valErr' = validateFilename(filename)
    /\ pc' = "validated"
    /\ UNCHANGED <<conn, logFile, outFile, closes, buffer, bytesRead, disk,
                   dlErr, lastCall, fileCreated, wire, stdout, logLines, exitCode>>
    /\ UNCHANGED <<netVars, timeVars, inputVars>>

\* main.go:105-108: err != nil logs "invalid filename:" and exits 1.
CheckValidate ==
    /\ pc = "validated"
    /\ IF valErr # ValNil
       THEN /\ logLines' = Append(logLines, [text |-> "invalid filename:", arg |-> valErr.filename])
            /\ Exit(1)
       ELSE /\ pc' = "dl_request"
            /\ UNCHANGED <<logLines, exitCode>>
    /\ UNCHANGED <<conn, logFile, outFile, closes, buffer, bytesRead, disk,
                   valErr, dlErr, lastCall, fileCreated, wire, stdout>>
    /\ UNCHANGED <<netVars, timeVars, inputVars>>

\* Variant: downloadFile's error is not looked at.
AfterDownloadAlwaysZero ==
    /\ pc = "dl_returned"
    /\ logLines' = Append(logLines, [text |-> "downloaded file", arg |-> filename])
    /\ logFile' = "closed"
    /\ conn' = "closed"
    /\ closes' = [closes EXCEPT !.log = @ + 1, !.conn = @ + 1]
    /\ pc' = "exited"
    /\ exitCode' = 0
    /\ UNCHANGED <<outFile, buffer, bytesRead, disk, valErr, dlErr, lastCall,
                   fileCreated, wire, stdout>>
    /\ UNCHANGED <<netVars, timeVars, inputVars>>

\* main.go:110-116, after downloadFile returned: an error is logged and the
\* process exits 1 through os.Exit; otherwise the success line is logged and
\* main returns, which runs the deferred logFile.Close and conn.Close and
\* ends the process with code 0.
AfterDownload ==
    /\ pc = "dl_returned"
    /\ IF dlErr # DlNil
       THEN /\ logLines' = Append(logLines, [text |-> "error downloading file:", arg |-> dlErr])
            /\ Exit(1)
            /\ UNCHANGED <<logFile, conn, closes>>
       ELSE /\ logLines' = Append(logLines, [text |-> "downloaded file", arg |-> filename])
            /\ logFile' = "closed"
            /\ conn' = "closed"
            /\ closes' = [closes EXCEPT !.log = @ + 1, !.conn = @ + 1]
            /\ pc' = "exited"
            /\ exitCode' = 0
    /\ UNCHANGED <<outFile, buffer, bytesRead, disk, valErr, dlErr, lastCall,
                   fileCreated, wire, stdout>>
    /\ UNCHANGED <<netVars, timeVars, inputVars>>

\* ------------------------------------------------------------ downloadFile
\* A return before the output file exists: nothing is deferred yet.
ReturnEarly(err) ==
    /\ pc' = "dl_returned"
    /\ dlErr' = err
    /\ UNCHANGED <<outFile, closes>>

\* Variant: the file is closed on the success path only.
ReturnLeakOnError(err) ==
    /\ pc' = "dl_returned"
    /\ dlErr' = err
    /\ IF err = DlNil
       THEN outFile' = "closed" /\ closes' = [closes EXCEPT !.file = @ + 1]
       ELSE UNCHANGED <<outFile, closes>>

\* A return after `defer file.Close()` (main.go:55): the file is closed on
\* the way out, whatever the result.
Return(err) ==
    /\ pc' = "dl_returned"
    /\ dlErr' = err
    /\ outFile' = "closed"
    /\ closes' = [closes EXCEPT !.file = @ + 1]

\* main.go:46-49: write the request line.
DlRequest ==
    /\ pc = "dl_request"
    /\ \E ok \in BOOLEAN :
          IF ok
          THEN /\ wire' = wire \o Request(filename)
               /\ lastCall' = [op |-> "conn.Write", err |-> NoErr]
               /\ pc' = "dl_create"
               /\ UNCHANGED <<dlErr, outFile, closes>>
          ELSE /\ lastCall' = [op |-> "conn.Write", err |-> ErrPipe]
               /\ ReturnEarly(Wrap("error sending request", ErrPipe))
               /\ UNCHANGED wire
    /\ UNCHANGED <<conn, logFile, buffer, bytesRead, disk, valErr, fileCreated,
                   stdout, logLines, exitCode>>
    /\ UNCHANGED <<netVars, timeVars, inputVars>>

\* Variant: the file is opened without truncation.
CreateKeep(old) == IF old = Absent THEN <<>> ELSE old

\* os.Create opens with O_RDWR|O_CREATE|O_TRUNC: the contents are emptied.
CreateTruncate(old) == <<>>

\* main.go:51-55: create the output file and defer its close.  The receive
\* loop is entered next, which starts the gap timer.
DlCreate ==
    /\ pc = "dl_create"
    /\ \E ok \in BOOLEAN :
          IF ok
          THEN /\ disk' = CreateTruncate(disk)
               /\ outFile' = "open"
               /\ fileCreated' = TRUE
               /\ gap' = 0
               /\ elapsed' = 0
               /\ lastCall' = [op |-> "os.Create", err |-> NoErr]
               /\ pc' = "dl_deadline"
               /\ UNCHANGED <<dlErr, closes>>
          ELSE /\ lastCall' = [op |-> "os.Create", err |-> ErrPerm]
               /\ ReturnEarly(Wrap("error creating file", ErrPerm))
               /\ UNCHANGED <<disk, fileCreated, gap, elapsed>>
    /\ UNCHANGED <<conn, logFile, buffer, bytesRead, valErr, wire, stdout,
                   logLines, exitCode>>
    /\ UNCHANGED <<netVars, deadline, stalled, inputVars>>

\* Variant: the deadline is set for the first read only.
ArmOnce(old) == IF old = NoTimer THEN ConnectionTimeout ELSE old

\* Variant: no deadline is set.
ArmNever(old) == NoTimer

\* time.Now().Add(ConnectionTimeout), as time remaining from now.
ArmDeadline(old) == ConnectionTimeout

\* main.go:59-61: conn.SetReadDeadline.  conn.Read is called right after
\* it: no time passes between the two.
DlSetDeadline ==
    /\ pc = "dl_deadline"
    /\ \E ok \in BOOLEAN :
          IF ok
          THEN /\ deadline' = ArmDeadline(deadline)
               /\ lastCall' = [op |-> "conn.SetReadDeadline", err |-> NoErr]
               /\ pc' = "dl_read"
               /\ UNCHANGED <<dlErr, outFile, closes>>
          ELSE /\ lastCall' = [op |-> "conn.SetReadDeadline", err |-> ErrClosedConn]
               /\ Return(Wrap("error setting read deadline", ErrClosedConn))
               /\ UNCHANGED deadline
    /\ UNCHANGED <<conn, logFile, buffer, bytesRead, disk, valErr, fileCreated,
                   wire, stdout, logLines, exitCode>>
    /\ UNCHANGED <<netVars, gap, stalled, elapsed, inputVars>>

\* The pending conn.Read can return: its deadline passed, the connection was
\* reset, bytes are waiting, or the peer closed.
ReadReady ==
    \/ deadline = 0
    \/ connReset
    \/ rcvd < sent
    \/ peerClosed

\* Variant: a timeout ends the loop like end-of-stream.
OnReadErrorIgnored(err) ==
    IF err = EOF \/ err = ErrTimeout
    THEN Return(DlNil)
    ELSE Return(Wrap("error reading data from connection", err))

\* main.go:64-69: io.EOF breaks the loop and downloadFile returns nil; any
\* other error is returned wrapped.
OnReadError(err) ==
    IF err = EOF
    THEN Return(DlNil)
    ELSE Return(Wrap("error reading data from connection", err))

ReadFails(err) ==
    /\ lastCall' = [op |-> "conn.Read", err |-> err]
    /\ OnReadError(err)
    /\ UNCHANGED <<rcvd, buffer, bytesRead, gap>>

\* main.go:63-69: conn.Read(buffer).  A passed deadline fails the read even
\* if bytes arrived later; otherwise between 1 and len(buffer) of the
\* waiting bytes are copied to the front of the buffer; with none waiting
\* and the peer closed the read reports io.EOF.
DlRead ==
    /\ pc = "dl_read"
    /\ ReadReady
    /\ IF deadline = 0 THEN ReadFails(ErrTimeout)
       ELSE IF connReset THEN ReadFails(ErrReset)
       ELSE IF rcvd < sent
       THEN \E n \in 1..Min(Len(buffer), sent - rcvd) :
               /\ buffer' = [i \in 1..Len(buffer) |->
                                IF i <= n THEN serverData[rcvd + i] ELSE buffer[i]]
               /\ bytesRead' = n
               /\ rcvd' = rcvd + n
               /\ gap' = 0
               /\ lastCall' = [op |-> "conn.Read", err |-> NoErr]
               /\ pc' = "dl_write"
               /\ UNCHANGED <<dlErr, outFile, closes>>
       ELSE ReadFails(EOF)
    /\ UNCHANGED <<conn, logFile, disk, valErr, fileCreated, wire, stdout,
                   logLines, exitCode>>
    /\ UNCHANGED <<sent, peerClosed, connReset, deadline, stalled, elapsed, inputVars>>

\* Variant: the whole buffer.
WholeBuffer(buf, n) == buf

\* buffer[:bytesRead]
ReadPart(buf, n) == SubSeq(buf, 1, n)

\* main.go:71-73: file.Write(buffer[:bytesRead]).  A failed write may have
\* written a shorter prefix.
DlWriteFile ==
    /\ pc = "dl_write"
    /\ \E ok \in BOOLEAN :
          IF ok
          THEN /\ disk' = disk \o ReadPart(buffer, bytesRead)
               /\ lastCall' = [op |-> "file.Write", err |-> NoErr]
               /\ pc' = "dl_deadline"
               /\ UNCHANGED <<dlErr, outFile, closes>>
          ELSE \E k \in 0..(bytesRead - 1) :
               /\ disk' = disk \o SubSeq(ReadPart(buffer, bytesRead), 1, k)
               /\ lastCall' = [op |-> "file.Write", err |-> ErrNoSpace]
               /\ Return(Wrap("error writing data to file", ErrNoSpace))
    /\ UNCHANGED <<conn, logFile, buffer, bytesRead, valErr, fileCreated, wire,
                   stdout, logLines, exitCode>>
    /\ UNCHANGED <<netVars, timeVars, inputVars>>

\* ------------------------------------------------------------ environment
\* More of the server's bytes arrive in the receive buffer.
ServerSend ==
    /\ InLoop
    /\ serverMode = "serving" /\ ~peerClosed /\ ~connReset
    /\ sent < Len(serverData)
    /\ \E k \in (sent + 1)..Len(serverData) : sent' = k
    /\ UNCHANGED <<rcvd, peerClosed, connReset>>
    /\ UNCHANGED <<progVars, timeVars, inputVars>>

\* The server, having sent everything, closes the connection.
ServerClose ==
    /\ InLoop
    /\ serverMode = "serving" /\ ~peerClosed /\ ~connReset
    /\ sent = Len(serverData)
    /\ peerClosed' = TRUE
    /\ UNCHANGED <<sent, rcvd, connReset>>
    /\ UNCHANGED <<progVars, timeVars, inputVars>>

\* The connection is reset instead.
ServerReset ==
    /\ InLoop
    /\ serverMode = "serving" /\ ~connReset
    /\ connReset' = TRUE
    /\ UNCHANGED <<sent, rcvd, peerClosed>>
    /\ UNCHANGED <<progVars, timeVars, inputVars>>

Dec(t) == IF t > 0 THEN t - 1 ELSE t
Inc(t, max) == IF t = NoTimer THEN t ELSE Min(t + 1, max)

\* One unit of time passes.  A pending read returns the moment it can, so
\* no time passes while it is ready.
Tick ==
    /\ InLoop
    /\ ~(pc = "dl_read" /\ ReadReady)
    /\ <<Dec(deadline), Inc(gap, ConnectionTimeout), Inc(elapsed, ConnectionTimeout + 1)>>
          # <<deadline, gap, elapsed>>
    /\ deadline' = Dec(deadline)
    /\ gap' = Inc(gap, ConnectionTimeout)
    /\ elapsed' = Inc(elapsed, ConnectionTimeout + 1)
    /\ stalled' = (stalled \/ (gap' = ConnectionTimeout /\ sent = rcvd
                                /\ ~peerClosed /\ ~connReset))
    /\ UNCHANGED <<progVars, netVars, inputVars>>

\* ------------------------------------------------------------ specifications
Program ==
    \/ Dial \/ OpenLog \/ CallValidate \/ CheckValidate
    \/ DlRequest \/ DlCreate \/ DlSetDeadline \/ DlRead \/ DlWriteFile
    \/ AfterDownload

Next ==
    \/ Dial
    \/ OpenLog
    \/ CallValidate
    \/ CheckValidate
    \/ DlRequest
    \/ DlCreate
    \/ DlSetDeadline
    \/ DlRead
    \/ DlWriteFile
    \/ AfterDownload
    \/ ServerSend
    \/ ServerClose
    \/ ServerReset
    \/ Tick

Spec == Init /\ [][Next]_vars

\* The program is sequential and always takes its next step; the clock
\* always advances.  The server is under no obligation.
LiveSpec == Init /\ [][Next]_vars /\ WF_vars(Program) /\ WF_vars(Tick)

\* validateFilename alone, on every name up to MaxNameLen over Alphabet.
InitValidate ==
    /\ InitCommon
    /\ pc = "validate"
    /\ filename \in Filenames
    /\ conn = "open" /\ logFile = "open"

NextValidate == CallValidate

ValidateSpec == InitValidate /\ [][NextValidate]_vars

\* ------------------------------------------------------------ properties
\* downloadFile was called and has returned.
DownloadReturned == lastCall.op # "" /\ pc \in {"dl_returned", "exited"}

ReadTimeoutError == Wrap("error reading data from connection", ErrTimeout)

\* C1: when no call of downloadFile failed (the last one reported
\* end-of-stream), downloadFile returned success and the local file holds
\* exactly the bytes the server sent, in order, however the reads split them.
C1_ExactCopy ==
    (DownloadReturned /\ lastCall.err \in {NoErr, EOF})
        => (dlErr = DlNil /\ disk = serverData /\ rcvd = Len(serverData))

\* A response of MaxData bytes (more than one buffer) was copied in full.
C1_Witness ==
    /\ DownloadReturned /\ dlErr = DlNil
    /\ Len(serverData) = MaxData /\ MaxData > DefaultBufferSize
    /\ disk = serverData

\* C2: once the process has exited after the connection was opened, the
\* program has closed the connection, and has closed the log file exactly
\* once if it opened it.
C2_ClosedOnEveryExit ==
    (pc = "exited" /\ conn # "none")
        => /\ conn = "closed" /\ closes.conn = 1
           /\ logFile # "none" => (logFile = "closed" /\ closes.log = 1)

\* The success path does close both, once each.
C2_SuccessWitness ==
    /\ pc = "exited" /\ exitCode = 0
    /\ conn = "closed" /\ closes.conn = 1
    /\ logFile = "closed" /\ closes.log = 1

\* C3: the output file handle is open and unclosed throughout the receive
\* loop; once downloadFile returned it has been closed exactly once if the
\* file was created, and was never opened nor closed if the request write or
\* the creation failed.
C3_OutputFileClosedOnce ==
    /\ pc \in {"dl_deadline", "dl_read", "dl_write"}
          => (fileCreated /\ outFile = "open" /\ closes.file = 0)
    /\ DownloadReturned
          => IF fileCreated
             THEN outFile = "closed" /\ closes.file = 1
             ELSE outFile = "none" /\ closes.file = 0
    /\ ~fileCreated => lastCall.op \in {"", "conn.Write", "os.Create"}

\* downloadFile returned on a file write error with the file closed once.
C3_Witness ==
    /\ DownloadReturned /\ fileCreated
    /\ lastCall = [op |-> "file.Write", err |-> ErrNoSpace]
    /\ outFile = "closed" /\ closes.file = 1

\* C4: with a server that never sends and never closes, a pending read has a
\* deadline armed, and it leads to the process having exited with code 1 on
\* a read error that wraps the timeout.
C4_SilentServerTimesOut ==
    /\ []((serverMode = "silent" /\ pc = "dl_read") => deadline \in 0..ConnectionTimeout)
    /\ (serverMode = "silent" /\ pc = "dl_read")
          ~> (pc = "exited" /\ exitCode = 1 /\ dlErr = ReadTimeoutError)

\* The silent server's client has exited on the timeout.
C4_Witness ==
    /\ serverMode = "silent" /\ pc = "exited" /\ exitCode = 1
    /\ dlErr = ReadTimeoutError /\ lastCall = [op |-> "conn.Read", err |-> ErrTimeout]

\* The characters of [a-zA-Z0-9._-].
AllowedChar(c) == c \in (97..122) \cup (65..90) \cup (48..57) \cup {46, 95, 45}

\* C5: validateFilename returns nil exactly for the non-empty names all of
\* whose characters are allowed, returns an error carrying the name
\* otherwise, and the call changes nothing but its own result.
C5_ValidatorExact ==
    /\ [](pc = "validated" =>
            /\ (valErr = ValNil) <=>
                  (filename # <<>> /\ \A i \in 1..Len(filename) : AllowedChar(filename[i]))
            /\ valErr # ValNil => valErr.filename = filename)
    /\ [][pc = "validate" =>
            UNCHANGED <<filename, conn, logFile, outFile, closes, disk, wire,
                        stdout, logLines, exitCode, dlErr, lastCall>>]_vars

\* "a\n" (an allowed character, then a newline in the last position) was
\* rejected.
C5_Witness ==
    /\ pc = "validated" /\ filename = <<97, 10>>
    /\ valErr # ValNil /\ valErr.filename = filename

\* C6: as long as no connection was established the program has done nothing
\* else: no log file, no validation, no request, no file created or
\* truncated; and if it has ended, it printed the connection error and
\* exited with code 1.
C6_ConnectFailureStopsAll ==
    conn = "none" =>
        /\ pc \in {"dial", "exited"}
        /\ logFile = "none" /\ logLines = <<>>
        /\ wire = <<>> /\ lastCall.op = ""
        /\ ~fileCreated /\ disk = prior
        /\ pc = "exited" => (exitCode = 1 /\ stdout = <<"error connecting to server:">>)

\* The dial failed and the process has exited.
C6_Witness == conn = "none" /\ pc = "exited" /\ exitCode = 1

\* C7: the exit code is 0 exactly when downloadFile ended on end-of-stream,
\* and 1 otherwise; a run that opened the log file has appended exactly one
\* line: the invalid-filename line, the download-error line, or (only with
\* exit code 0) the "downloaded file <name>" line.
C7_ExitCodeAndLog ==
    pc = "exited" =>
        /\ exitCode \in {0, 1}
        /\ (exitCode = 0) <=> (DownloadReturned /\ lastCall.err = EOF)
        /\ logFile = "none" => (exitCode = 1 /\ logLines = <<>>)
        /\ logFile # "none" =>
              /\ Len(logLines) = 1
              /\ IF exitCode = 0
                 THEN /\ logLines[1].text = "downloaded file"
                      /\ logLines[1].arg = filename
                 ELSE IF ~DownloadReturned
                 THEN /\ logLines[1].text = "invalid filename:"
                      /\ logLines[1].arg = filename
                 ELSE /\ logLines[1].text = "error downloading file:"
                      /\ logLines[1].arg = dlErr

\* File creation failed: exit code 1 and the one log line is the download
\* error.
C7_Witness ==
    /\ pc = "exited" /\ exitCode = 1
    /\ lastCall = [op |-> "os.Create", err |-> ErrPerm]
    /\ Len(logLines) = 1 /\ logLines[1].text = "error downloading file:"

\* C8: once the file was created its contents are a prefix of the server's
\* bytes (all of them when downloadFile returned success), with nothing of
\* the prior contents; until it is created the file is as it was before.
C8_ReplacesExisting ==
    /\ fileCreated =>
          /\ disk # Absent
          /\ Len(disk) <= Len(serverData)
          /\ \A i \in 1..Len(disk) : disk[i] = serverData[i]
          /\ (DownloadReturned /\ dlErr = DlNil) => Len(disk) = Len(serverData)
    /\ ~fileCreated => disk = prior

\* A file that held two bytes was replaced by a one-byte response.
C8_Witness ==
    /\ pc = "exited" /\ dlErr = DlNil /\ fileCreated
    /\ prior = OldContents
    /\ Len(serverData) = 1 /\ disk = serverData

\* The failing phase's text, by the call that failed.
PhaseMsg(op) ==
    CASE op = "conn.Write" -> "error sending request"
      [] op = "os.Create" -> "error creating file"
      [] op = "conn.SetReadDeadline" -> "error setting read deadline"
      [] op = "conn.Read" -> "error reading data from connection"
      [] op = "file.Write" -> "error writing data to file"
      [] OTHER -> ""

\* C9: the file is created only after the request was written, the loop's
\* calls are made only after the file was created, a failed call (or
\* end-of-stream) is the last call downloadFile makes, the result is success
\* only on end-of-stream and otherwise the failing call's error wrapped with
\* its phase; after the return nothing more is read or written.
C9_PhasesAndErrors ==
    /\ [](/\ fileCreated => wire = Request(filename)
          /\ (rcvd > 0 \/ lastCall.op \in {"conn.SetReadDeadline", "conn.Read", "file.Write"})
                => fileCreated
          /\ lastCall.err # NoErr => DownloadReturned
          /\ DownloadReturned =>
                IF lastCall = [op |-> "conn.Read", err |-> EOF]
                THEN dlErr = DlNil
                ELSE /\ lastCall.err \notin {NoErr, EOF}
                     /\ dlErr = Wrap(PhaseMsg(lastCall.op), lastCall.err))
    /\ [][DownloadReturned => (rcvd' = rcvd /\ disk' = disk /\ wire' = wire
                               /\ lastCall' = lastCall /\ dlErr' = dlErr)]_vars

\* downloadFile returned a wrapped read error after a reset.
C9_Witness ==
    /\ DownloadReturned
    /\ lastCall = [op |-> "conn.Read", err |-> ErrReset]
    /\ dlErr = Wrap("error reading data from connection", ErrReset)
    /\ rcvd > 0

\* C10: every read is issued right after the deadline was set to a full
\* ConnectionTimeout from now, and a read fails with the timeout only if the
\* gap since the loop was entered or the previous read returned reached
\* ConnectionTimeout with no bytes and no close arrived.
C10_TimeoutOnlyOnStall ==
    /\ []((lastCall.err = ErrTimeout \/ dlErr = ReadTimeoutError) => stalled)
    /\ [][(pc' = "dl_read" /\ pc # "dl_read")
             => (pc = "dl_deadline" /\ deadline' = ConnectionTimeout)]_vars

\* A transfer of MaxData bytes that took longer than ConnectionTimeout in
\* all, never stalled, and succeeded.
C10_Witness ==
    /\ DownloadReturned /\ dlErr = DlNil /\ ~stalled
    /\ elapsed > ConnectionTimeout
    /\ Len(serverData) = MaxData

====
